---- MODULE Spec2Model ----
(***************************************************************************)
(* A model of superset/db_engine_specs/druid.py: the Druid engine spec.    *)
(*                                                                         *)
(* Python values are tagged records [kind, val] so that values of          *)
(* different Python types can be compared.  A str that holds JSON text is  *)
(* modelled after lexing: its val is the sequence of the tokens of the     *)
(* text, a run of whitespace being a token that the decoder skips.         *)
(***************************************************************************)
EXTENDS Integers, Sequences, FiniteSets, TLC

(***************************************************************************)
(* Python values                                                           *)
(***************************************************************************)
PyNone == [kind |-> "NoneType", val |-> "None"]
PyStr(s) == [kind |-> "str", val |-> s]
PyInt(s) == [kind |-> "int", val |-> s]
PyFloat(s) == [kind |-> "float", val |-> s]
PyBool(s) == [kind |-> "bool", val |-> s]
PyList(q) == [kind |-> "list", val |-> q]
PyDict(m) == [kind |-> "dict", val |-> m]

EmptyMap == [k \in {} |-> PyNone]
EmptyDict == PyDict(EmptyMap)

\* Python truthiness of the values the adapter tests with `or` and `if`.
Truthy(v) ==
    CASE v.kind = "NoneType" -> FALSE
      [] v.kind = "str" -> Len(v.val) > 0
      [] OTHER -> TRUE

\* dict.get(key, default)
dict_get(d, key, default) ==
    IF key \in DOMAIN d.val THEN d.val[key] ELSE default

\* d[key] = v
dict_setitem(d, key, v) == PyDict((key :> v) @@ d.val)

\* How a call ends: it returns a value or raises an exception (exc), which
\* may carry the exception it was raised `from` (cause).
Returned(v) == [kind |-> "return", val |-> v, exc |-> "", cause |-> ""]
Raised(e, c) == [kind |-> "raise", val |-> PyNone, exc |-> e, cause |-> c]

(***************************************************************************)
(* json.loads, on token sequences                                          *)
(***************************************************************************)
Punct(s) == [t |-> "punct", s |-> s]
StrTok(s) == [t |-> "str", s |-> s]
NumTok(s) == [t |-> "num", s |-> s]
LitTok(s) == [t |-> "lit", s |-> s]
BadTok(s) == [t |-> "bad", s |-> s]
WS == [t |-> "ws", s |-> " "]
LB == Punct("{")
RB == Punct("}")
LSQ == Punct("[")
RSQ == Punct("]")
COLON == Punct(":")
COMMA == Punct(",")

\* The constants Python's decoder accepts: the three of JSON, and NaN,
\* Infinity and -Infinity.
JsonLiterals == {"null", "true", "false", "NaN", "Infinity", "-Infinity"}
LiteralValue(s) ==
    CASE s = "null" -> PyNone
      [] s = "true" -> PyBool("True")
      [] s = "false" -> PyBool("False")
      [] s = "NaN" -> PyFloat("nan")
      [] s = "Infinity" -> PyFloat("inf")
      [] OTHER -> PyFloat("-inf")

ParseOk(v, p) == [ok |-> TRUE, val |-> v, pos |-> p]
ParseFail == [ok |-> FALSE, val |-> PyNone, pos |-> 0]

RECURSIVE ParseValue(_, _)
RECURSIVE ParseMembers(_, _, _)
RECURSIVE ParseElements(_, _, _)

\* scan_once: the value that starts at token i.
ParseValue(toks, i) ==
    IF i > Len(toks) THEN ParseFail
    ELSE LET tk == toks[i] IN
        CASE tk.t = "str" -> ParseOk(PyStr(tk.s), i + 1)
          [] tk.t = "num" -> ParseOk(PyInt(tk.s), i + 1)
          [] tk.t = "lit" /\ tk.s \in JsonLiterals ->
                ParseOk(LiteralValue(tk.s), i + 1)
          [] tk = LB ->
                IF i + 1 <= Len(toks) /\ toks[i + 1] = RB
                THEN ParseOk(EmptyDict, i + 2)
                ELSE ParseMembers(toks, i + 1, EmptyMap)
          [] tk = LSQ ->
                IF i + 1 <= Len(toks) /\ toks[i + 1] = RSQ
                THEN ParseOk(PyList(<<>>), i + 2)
                ELSE ParseElements(toks, i + 1, <<>>)
          [] OTHER -> ParseFail

\* JSONObject: a key, a colon, a value, then a comma (and another member)
\* or the closing brace.  A repeated key keeps its last value.
ParseMembers(toks, i, m) ==
    IF i + 1 > Len(toks) \/ toks[i].t # "str" \/ toks[i + 1] # COLON
    THEN ParseFail
    ELSE LET r == ParseValue(toks, i + 2) IN
        IF ~r.ok \/ r.pos > Len(toks) THEN ParseFail
        ELSE LET m2 == (toks[i].s :> r.val) @@ m IN
            CASE toks[r.pos] = RB -> ParseOk(PyDict(m2), r.pos + 1)
              [] toks[r.pos] = COMMA -> ParseMembers(toks, r.pos + 1, m2)
              [] OTHER -> ParseFail

\* JSONArray: a value, then a comma (and another value) or the closing
\* bracket.
ParseElements(toks, i, q) ==
    LET r == ParseValue(toks, i) IN
        IF ~r.ok \/ r.pos > Len(toks) THEN ParseFail
        ELSE LET q2 == Append(q, r.val) IN
            CASE toks[r.pos] = RSQ -> ParseOk(PyList(q2), r.pos + 1)
              [] toks[r.pos] = COMMA -> ParseElements(toks, r.pos + 1, q2)
              [] OTHER -> ParseFail

IsNotSpace(tk) == tk # WS

\* json.loads(s): the value of the whole text, whitespace skipped, or
\* JSONDecodeError when no value starts the text or tokens follow it
\* ("Extra data").
json_loads(s) ==
    LET toks == SelectSeq(s.val, IsNotSpace)
        r == ParseValue(toks, 1)
    IN  IF r.ok /\ r.pos = Len(toks) + 1
        THEN Returned(r.val)
        ELSE Raised("JSONDecodeError", "")

(***************************************************************************)
(* utils.create_ssl_cert_file and utils.TemporalType                       *)
(***************************************************************************)
\* The certificates parse_ssl_cert accepts.
ValidCerts == {"certA", "certB"}

\* The file a certificate is kept in: a name derived from the certificate's
\* text, in the certificate directory.
CertPath(cert) == "/tmp/" \o cert \o ".crt"

\* create_ssl_cert_file(certificate) with the files of the certificate
\* directory being fs: the path when the file is there already; otherwise
\* the certificate is validated (CertificateException when it is refused)
\* and written.  The result holds the call's outcome and the files after it.
create_ssl_cert_file(cert, fs) ==
    IF CertPath(cert.val) \in fs
    THEN [out |-> Returned(PyStr(CertPath(cert.val))), files |-> fs]
    ELSE IF cert.val \notin ValidCerts
    THEN [out |-> Raised("CertificateException", ""), files |-> fs]
    ELSE [out |-> Returned(PyStr(CertPath(cert.val))),
          files |-> fs \cup {CertPath(cert.val)}]

TemporalType_DATE == <<"D", "A", "T", "E">>
TemporalType_DATETIME == <<"D", "A", "T", "E", "T", "I", "M", "E">>
TemporalType_TIMESTAMP == <<"T", "I", "M", "E", "S", "T", "A", "M", "P">>

(***************************************************************************)
(* str.upper, date.isoformat and datetime.isoformat                        *)
(***************************************************************************)
\* A type tag is a sequence of characters.
LowerAlphabet ==
    <<"a", "b", "c", "d", "e", "f", "g", "h", "i", "j", "k", "l", "m",
      "n", "o", "p", "q", "r", "s", "t", "u", "v", "w", "x", "y", "z">>
UpperAlphabet ==
    <<"A", "B", "C", "D", "E", "F", "G", "H", "I", "J", "K", "L", "M",
      "N", "O", "P", "Q", "R", "S", "T", "U", "V", "W", "X", "Y", "Z">>

UpperChar(c) ==
    IF \E i \in DOMAIN LowerAlphabet : LowerAlphabet[i] = c
    THEN UpperAlphabet[CHOOSE i \in DOMAIN LowerAlphabet : LowerAlphabet[i] = c]
    ELSE c

upper(s) == [i \in DOMAIN s |-> UpperChar(s[i])]

Pad2(n) == IF n < 10 THEN "0" \o ToString(n) ELSE ToString(n)
Pad4(n) ==
    IF n < 10 THEN "000" \o ToString(n)
    ELSE IF n < 100 THEN "00" \o ToString(n)
    ELSE IF n < 1000 THEN "0" \o ToString(n)
    ELSE ToString(n)
Pad6(n) ==
    IF n < 10 THEN "00000" \o ToString(n)
    ELSE IF n < 100 THEN "0000" \o ToString(n)
    ELSE IF n < 1000 THEN "000" \o ToString(n)
    ELSE IF n < 10000 THEN "00" \o ToString(n)
    ELSE IF n < 100000 THEN "0" \o ToString(n)
    ELSE ToString(n)

\* dttm.date().isoformat()
date_isoformat(d) ==
    Pad4(d.year) \o "-" \o Pad2(d.month) \o "-" \o Pad2(d.day)

\* The UTC offset isoformat appends for an aware datetime; tz is <<>> for a
\* naive datetime and <<minutes>> for an aware one.
OffsetSuffix(tz) ==
    IF tz = <<>> THEN ""
    ELSE LET m == IF tz[1] < 0 THEN -tz[1] ELSE tz[1] IN
        (IF tz[1] < 0 THEN "-" ELSE "+")
            \o Pad2(m \div 60) \o ":" \o Pad2(m % 60)

\* dttm.isoformat(timespec="seconds")
isoformat_seconds(d) ==
    date_isoformat(d) \o "T" \o Pad2(d.hour) \o ":" \o Pad2(d.minute)
        \o ":" \o Pad2(d.second) \o OffsetSuffix(d.tz)

(***************************************************************************)
(* DruidEngineSpec                                                         *)
(***************************************************************************)
\* The dict display of lines 42-65.  The key None is PyNone, the other
\* keys are str.
TimeGrainDisplay ==
    (PyNone :> "{col}")
    @@ (PyStr("PT1S") :> "FLOOR({col} TO SECOND)")
    @@ (PyStr("PT5S") :> "TIME_FLOOR({col}, 'PT5S')")
    @@ (PyStr("PT30S") :> "TIME_FLOOR({col}, 'PT30S')")
    @@ (PyStr("PT1M") :> "FLOOR({col} TO MINUTE)")
    @@ (PyStr("PT5M") :> "TIME_FLOOR({col}, 'PT5M')")
    @@ (PyStr("PT10M") :> "TIME_FLOOR({col}, 'PT10M')")
    @@ (PyStr("PT15M") :> "TIME_FLOOR({col}, 'PT15M')")
    @@ (PyStr("PT0.5H") :> "TIME_FLOOR({col}, 'PT30M')")
    @@ (PyStr("PT1H") :> "FLOOR({col} TO HOUR)")
    @@ (PyStr("PT6H") :> "TIME_FLOOR({col}, 'PT6H')")
    @@ (PyStr("P1D") :> "FLOOR({col} TO DAY)")
    @@ (PyStr("P1W") :> "FLOOR({col} TO WEEK)")
    @@ (PyStr("P1M") :> "FLOOR({col} TO MONTH)")
    @@ (PyStr("P0.25Y") :> "FLOOR({col} TO QUARTER)")
    @@ (PyStr("P1Y") :> "FLOOR({col} TO YEAR)")
    @@ (PyStr("P1W/1970-01-03T00:00:00Z") :>
            "TIMESTAMPADD(DAY, 5, FLOOR(TIMESTAMPADD(DAY, 1, {col}) TO WEEK))")
    @@ (PyStr("1969-12-28T00:00:00Z/P1W") :>
            "TIMESTAMPADD(DAY, -1, FLOOR(TIMESTAMPADD(DAY, 1, {col}) TO WEEK))")

\* As TimeGrainExpressions, but with the half hour written as its grain
\* code, which is no period Druid reads as thirty minutes.
TimeGrainExpressionsHalfHour ==
    (PyStr("PT0.5H") :> "TIME_FLOOR({col}, 'PT0.5H')") @@ TimeGrainDisplay

\* The class attribute _time_grain_expressions as the class statement
\* binds it.
TimeGrainExpressions == TimeGrainDisplay


\* As alter_new_orm_column, but comparing the name without regard to case.
alter_new_orm_column_anycase(orm_col) ==
    IF orm_col.column_name \in {"__time", "__TIME"}
    THEN [orm_col EXCEPT !.is_dttm = TRUE]
    ELSE orm_col

\* alter_new_orm_column(orm_col): the column after the call.
alter_new_orm_column(orm_col) ==
    IF orm_col.column_name = "__time"
    THEN [orm_col EXCEPT !.is_dttm = TRUE]
    ELSE orm_col

\* As load_extra, but without the try statement.
load_extra_unguarded(database) ==
    json_loads(IF Truthy(database.extra) THEN database.extra
               ELSE PyStr(<<LB, RB>>))

\* Lines 81-84 of get_extra_params: the parsed extras, or SupersetException
\* raised from the decoder's error.
load_extra(database) ==
    LET text == IF Truthy(database.extra)
                THEN database.extra
                ELSE PyStr(<<LB, RB>>)
        parsed == json_loads(text)
    IN  IF parsed.kind = "raise" /\ parsed.exc = "JSONDecodeError"
        THEN Raised("SupersetException", "JSONDecodeError")
        ELSE parsed

\* As has_server_cert, but testing `is not None`.
has_server_cert_not_none(database) == database.server_cert # PyNone

\* As has_server_cert, but with the test left out.
has_server_cert_untested(database) == TRUE

\* Line 86: `if database.server_cert`.
has_server_cert(database) == Truthy(database.server_cert)

\* Lines 87-89: engine_params and connect_args taken from extra, with
\* scheme set in connect_args.  Only a dict has .get (AttributeError
\* otherwise) and only a dict takes a str key (TypeError otherwise).
connect_params(extra) ==
    IF extra.kind # "dict" THEN Raised("AttributeError", "")
    ELSE LET engine_params == dict_get(extra, "engine_params", EmptyDict) IN
        IF engine_params.kind # "dict" THEN Raised("AttributeError", "")
        ELSE LET connect_args ==
                    dict_get(engine_params, "connect_args", EmptyDict) IN
            IF connect_args.kind # "dict" THEN Raised("TypeError", "")
            ELSE Returned([engine_params |-> engine_params,
                           connect_args |->
                               dict_setitem(connect_args, "scheme",
                                            PyStr("https"))])

\* Lines 91-93: the path stored in connect_args, connect_args in
\* engine_params and engine_params in extra.
store_params(extra, params, path) ==
    dict_setitem(extra, "engine_params",
        dict_setitem(params.engine_params, "connect_args",
            dict_setitem(params.connect_args, "ssl_verify_cert", path)))

\* get_extra_params(database), run from start to end with the certificate
\* directory holding the files fs: its outcome, the files after it and the
\* number of calls of create_ssl_cert_file it made.
get_extra_params(database, fs) ==
    LET extra == load_extra(database) IN
    IF extra.kind = "raise"
    THEN [out |-> extra, files |-> fs, cert_calls |-> 0]
    ELSE IF ~has_server_cert(database)
    THEN [out |-> Returned(extra.val), files |-> fs, cert_calls |-> 0]
    ELSE LET params == connect_params(extra.val) IN
        IF params.kind = "raise"
        THEN [out |-> params, files |-> fs, cert_calls |-> 0]
        ELSE LET made == create_ssl_cert_file(database.server_cert, fs) IN
            IF made.out.kind = "raise"
            THEN [out |-> made.out, files |-> made.files, cert_calls |-> 1]
            ELSE [out |-> Returned(store_params(extra.val, params.val,
                                                made.out.val)),
                  files |-> made.files, cert_calls |-> 1]

\* As convert_dttm, but with isoformat() called without timespec: the
\* microseconds are written when they are not zero.
convert_dttm_auto(target_type, dttm) ==
    LET tt == upper(target_type) IN
    IF tt = TemporalType_DATE
    THEN PyStr("CAST(TIME_PARSE('" \o date_isoformat(dttm) \o "') AS DATE)")
    ELSE IF tt \in {TemporalType_DATETIME, TemporalType_TIMESTAMP}
    THEN PyStr("TIME_PARSE('" \o date_isoformat(dttm) \o "T"
                \o Pad2(dttm.hour) \o ":" \o Pad2(dttm.minute) \o ":"
                \o Pad2(dttm.second)
                \o (IF dttm.microsecond = 0 THEN ""
                    ELSE "." \o Pad6(dttm.microsecond))
                \o OffsetSuffix(dttm.tz) \o "')")
    ELSE PyNone

\* As convert_dttm, but with the last test left out: every tag that is not
\* DATE is formatted as a timestamp.
convert_dttm_fallthrough(target_type, dttm) ==
    LET tt == upper(target_type) IN
    IF tt = TemporalType_DATE
    THEN PyStr("CAST(TIME_PARSE('" \o date_isoformat(dttm) \o "') AS DATE)")
    ELSE PyStr("TIME_PARSE('" \o isoformat_seconds(dttm) \o "')")

\* convert_dttm(target_type, dttm): the SQL literal, or None.
convert_dttm(target_type, dttm) ==
    LET tt == upper(target_type) IN
    IF tt = TemporalType_DATE
    THEN PyStr("CAST(TIME_PARSE('" \o date_isoformat(dttm) \o "') AS DATE)")
    ELSE IF tt \in {TemporalType_DATETIME, TemporalType_TIMESTAMP}
    THEN PyStr("TIME_PARSE('" \o isoformat_seconds(dttm) \o "')")
    ELSE PyNone

epoch_to_dttm == "MILLIS_TO_TIMESTAMP({col} * 1000)"

epoch_ms_to_dttm == "MILLIS_TO_TIMESTAMP({col})"

\* BaseEngineSpec's lookup of a grain in the table: the template, or
\* "unsupported" for a grain the table does not hold.
time_grain_lookup(table, grain) ==
    IF grain \in DOMAIN table
    THEN Returned(PyStr(table[grain]))
    ELSE Raised("NotImplementedError", "")

(***************************************************************************)
(* Inputs                                                                  *)
(***************************************************************************)
Obj1(k, v) == <<LB, StrTok(k), COLON>> \o v \o <<RB>>
Obj2(k1, v1, k2, v2) ==
    <<LB, StrTok(k1), COLON>> \o v1 \o <<COMMA, StrTok(k2), COLON>> \o v2
        \o <<RB>>

\* Extras whose connect_args already names a scheme, beside other keys at
\* each of the three levels.
FullExtras ==
    Obj2("engine_params",
         Obj2("connect_args",
              Obj2("scheme", <<StrTok("http")>>, "timeout", <<NumTok("30")>>),
              "pool_size", <<NumTok("5")>>),
         "metadata_params", <<LB, RB>>)

\* Texts json.loads accepts.
BaseTexts ==
    { <<LB, RB>>,
      <<WS, LB, WS, RB>>,
      Obj1("a", <<NumTok("1")>>),
      Obj2("a", <<NumTok("1")>>, "a", <<NumTok("2")>>),
      Obj1("engine_params", <<LB, RB>>),
      Obj1("engine_params", Obj1("connect_args", <<LB, RB>>)),
      Obj1("engine_params",
           Obj1("connect_args",
                Obj1("ssl_verify_cert", <<StrTok("/old.crt")>>))),
      FullExtras,
      Obj1("engine_params", <<LitTok("null")>>),
      Obj1("engine_params", <<LSQ, RSQ>>),
      Obj1("engine_params", <<NumTok("1")>>),
      Obj1("engine_params", Obj1("connect_args", <<LitTok("null")>>)),
      Obj1("engine_params", Obj1("connect_args", <<LSQ, NumTok("1"), RSQ>>)),
      Obj1("engine_params", Obj1("connect_args", <<StrTok("s")>>)),
      <<LSQ, RSQ>>,
      <<LSQ>> \o Obj1("a", <<NumTok("1")>>) \o <<COMMA, NumTok("2"), RSQ>>,
      <<NumTok("1")>>,
      <<StrTok("s")>>,
      <<LitTok("null")>>,
      <<LitTok("true")>>,
      <<LitTok("NaN")>> }

\* Texts cut short: the texts of BaseTexts with their last tokens lost.
CutTexts ==
    UNION { { SubSeq(t, 1, n) : n \in 1..(Len(t) - 1) } : t \in BaseTexts }

\* Other texts that are not JSON.
BrokenTexts ==
    { <<RB>>,
      <<LB, RB, RB>>,
      <<LB, RB, LB, RB>>,
      <<LB, StrTok("a"), COLON, NumTok("1"), COMMA, RB>>,
      <<LB, StrTok("a"), NumTok("1"), RB>>,
      <<LB, StrTok("a"), COLON, RB>>,
      <<LB, NumTok("1"), COLON, NumTok("2"), RB>>,
      <<LB, BadTok("a"), COLON, NumTok("1"), RB>>,
      <<LB, StrTok("a"), COLON, NumTok("1"), RSQ>>,
      <<LSQ, NumTok("1"), COMMA, RSQ>>,
      <<LSQ, NumTok("1"), NumTok("2"), RSQ>>,
      <<BadTok("'s'")>>,
      <<LitTok("None")>>,
      <<COMMA>>,
      <<WS>> }

ExtraTexts == BaseTexts \cup CutTexts \cup BrokenTexts

\* database.extra: None, the empty text, or a text.
ExtraValues == {PyNone, PyStr(<<>>)} \cup {PyStr(t) : t \in ExtraTexts}

\* database.server_cert: None, the empty text, two certificates the
\* utility accepts and one it refuses.
CertValues ==
    {PyNone, PyStr(""), PyStr("certA"), PyStr("certB"), PyStr("garbage")}

Databases == [extra : ExtraValues, server_cert : CertValues]

ColumnNames == {"__time", "__TIME", "__time__", "time", ""}
Columns ==
    [column_name : ColumnNames, is_dttm : BOOLEAN, type : {"TIMESTAMP"},
     groupby : {TRUE}]

TypeTags ==
    { <<"D", "A", "T", "E">>, <<"d", "a", "t", "e">>, <<"D", "a", "t", "e">>,
      <<"D", "A", "T", "E", "T", "I", "M", "E">>,
      <<"d", "a", "t", "e", "t", "i", "m", "e">>,
      <<"T", "I", "M", "E", "S", "T", "A", "M", "P">>,
      <<"t", "i", "m", "e", "S", "t", "a", "m", "p">>,
      <<"T", "I", "M", "E">>, <<"D", "A", "T", "E", "S">>,
      <<"D", "A", "T">>, <<"D", "A", "T", "E", " ">>,
      <<"S", "T", "R", "I", "N", "G">>, <<"d", "a", "t", "e", "2">>,
      <<>> }

Dttms ==
    [year : {987, 2024}, month : {1, 12}, day : {5}, hour : {0, 12},
     minute : {30}, second : {45}, microsecond : {0, 1, 999999},
     tz : {<<>>, <<330>>, <<-300>>}]

Grains ==
    DOMAIN TimeGrainExpressions
        \cup {PyStr("PT2H"), PyStr("pt1s"), PyStr("P1W/1970-01-04T00:00:00Z")}

\* The inputs of the runs that mix all the operations.
SomeDatabases ==
    { [extra |-> PyStr(<<LB, RB>>), server_cert |-> PyNone],
      [extra |-> PyStr(FullExtras), server_cert |-> PyNone],
      [extra |-> PyStr(FullExtras), server_cert |-> PyStr("certA")],
      [extra |-> PyNone, server_cert |-> PyStr("certB")],
      [extra |-> PyStr(<<LB>>), server_cert |-> PyStr("certA")],
      [extra |-> PyStr(<<LSQ, RSQ>>), server_cert |-> PyStr("certA")],
      [extra |-> PyStr(<<LB, RB>>), server_cert |-> PyStr("garbage")] }

SomeTypeTags ==
    { <<"D", "A", "T", "E">>, <<"d", "a", "t", "e", "t", "i", "m", "e">>,
      <<"T", "I", "M", "E", "S", "T", "A", "M", "P">>, <<"T", "I", "M", "E">> }

SomeDttms == { d \in Dttms : d.year = 2024 /\ d.month = 1 /\ d.tz = <<>> }

TimeColumn ==
    [column_name |-> "__time", is_dttm |-> FALSE, type |-> "TIMESTAMP",
     groupby |-> TRUE]

(***************************************************************************)
(* State                                                                   *)
(***************************************************************************)
\* The number of get_extra_params calls that may be in progress together.
NumCalls == 2

Calls == 1..NumCalls
DbIds == {"db1", "db2"}

VARIABLES
    orm_col,                  \* the TableColumn given to alter_new_orm_column
    orm_col0,                 \* that column before any call (history)
    altered,                  \* alter_new_orm_column has been called
    _time_grain_expressions,  \* the class attribute
    files,                    \* the files of the certificate directory
    last,                     \* the last finished call: op, arg, out
    database,                 \* the Database records of the concurrent calls
    call,                     \* per call of get_extra_params: pc, db, out
    locals                    \* per call frame: extra, params, path

vars ==
    <<orm_col, orm_col0, altered, _time_grain_expressions, files, last,
      database, call, locals>>

NoCall == [op |-> "none", arg |-> PyNone, out |-> Returned(PyNone)]
IdleCall == [pc |-> "idle", db |-> "db1", out |-> Returned(PyNone),
             cert_calls |-> 0]
NoLocals == [extra |-> PyNone,
             params |-> [engine_params |-> PyNone, connect_args |-> PyNone],
             path |-> PyNone]

(***************************************************************************)
(* The adapter's operations, one call at a time                            *)
(***************************************************************************)
\* The state before any call, the column being one of cols.
InitWith(cols) ==
    /\ orm_col \in cols
    /\ orm_col0 = orm_col
    /\ altered = FALSE
    /\ _time_grain_expressions = TimeGrainExpressions
    /\ files = {}
    /\ last = NoCall
    /\ database = [d \in DbIds |-> [extra |-> PyNone, server_cert |-> PyNone]]
    /\ call = [c \in Calls |-> IdleCall]
    /\ locals = [c \in Calls |-> NoLocals]

AlterNewOrmColumn ==
    /\ orm_col' = alter_new_orm_column(orm_col)
    /\ altered' = TRUE
    /\ last' = [op |-> "alter_new_orm_column", arg |-> orm_col,
                out |-> Returned(PyNone)]
    /\ UNCHANGED <<orm_col0, _time_grain_expressions, files, database, call,
                   locals>>

GetExtraParamsOf(dbs) ==
    \E db \in dbs :
        LET r == get_extra_params(db, files) IN
        /\ last' = [op |-> "get_extra_params", arg |-> db, out |-> r.out]
        /\ files' = r.files
        /\ UNCHANGED <<orm_col, orm_col0, altered, _time_grain_expressions,
                       database, call, locals>>

ConvertDttmOf(tags, dttms) ==
    \E target_type \in tags, dttm \in dttms :
        /\ last' = [op |-> "convert_dttm",
                    arg |-> [target_type |-> target_type, dttm |-> dttm],
                    out |-> Returned(convert_dttm(target_type, dttm))]
        /\ UNCHANGED <<orm_col, orm_col0, altered, _time_grain_expressions,
                       files, database, call, locals>>

EpochToDttm ==
    /\ last' = [op |-> "epoch_to_dttm", arg |-> PyNone,
                out |-> Returned(PyStr(epoch_to_dttm))]
    /\ UNCHANGED <<orm_col, orm_col0, altered, _time_grain_expressions,
                   files, database, call, locals>>

EpochMsToDttm ==
    /\ last' = [op |-> "epoch_ms_to_dttm", arg |-> PyNone,
                out |-> Returned(PyStr(epoch_ms_to_dttm))]
    /\ UNCHANGED <<orm_col, orm_col0, altered, _time_grain_expressions,
                   files, database, call, locals>>

TimeGrain ==
    \E grain \in Grains :
        /\ last' = [op |-> "time_grain", arg |-> grain,
                    out |-> time_grain_lookup(_time_grain_expressions, grain)]
        /\ UNCHANGED <<orm_col, orm_col0, altered, _time_grain_expressions,
                       files, database, call, locals>>

\* Every operation of the adapter, in any order, on a few inputs each.
Init == InitWith(Columns)

GetExtraParams == GetExtraParamsOf(SomeDatabases)

ConvertDttm == ConvertDttmOf(SomeTypeTags, SomeDttms)

Next ==
    \/ AlterNewOrmColumn
    \/ GetExtraParams
    \/ ConvertDttm
    \/ EpochToDttm
    \/ EpochMsToDttm
    \/ TimeGrain

Spec == Init /\ [][Next]_vars

\* get_extra_params alone, on every record of Databases.
InitExtra == InitWith({TimeColumn})

NextExtra == GetExtraParamsOf(Databases)

SpecExtra == InitExtra /\ [][NextExtra]_vars

\* convert_dttm and the epoch expressions, on every tag and timestamp.
InitDttm == InitWith({TimeColumn})

NextDttm ==
    \/ ConvertDttmOf(TypeTags, Dttms)
    \/ EpochToDttm
    \/ EpochMsToDttm

SpecDttm == InitDttm /\ [][NextDttm]_vars

(***************************************************************************)
(* Concurrent calls of get_extra_params, statement by statement            *)
(***************************************************************************)
\* The records two threads may pass: db1 is any record of these texts and
\* certificates, db2 one of four records.
ConcurrentDatabases ==
    [extra : {PyNone, PyStr(<<>>)}
                \cup {PyStr(t) : t \in BaseTexts \cup BrokenTexts},
     server_cert : CertValues]

OtherDatabases ==
    { [extra |-> PyStr(Obj1("a", <<NumTok("1")>>)), server_cert |-> PyNone],
      [extra |-> PyStr(Obj1("engine_params", <<LB, RB>>)),
       server_cert |-> PyStr("certB")],
      [extra |-> PyStr(FullExtras), server_cert |-> PyStr("certA")],
      [extra |-> PyStr(<<LB>>), server_cert |-> PyStr("certA")] }

\* As FrameOf, but with one frame for all the calls (the locals kept in a
\* module-level or class-level variable).
FrameShared(c) == 1

\* The frame that holds the local variables of call c: each call of the
\* function has its own.
FrameOf(c) == c

InitConc ==
    /\ orm_col = TimeColumn
    /\ orm_col0 = orm_col
    /\ altered = FALSE
    /\ _time_grain_expressions = TimeGrainExpressions
    /\ files = {}
    /\ last = NoCall
    /\ \E d1 \in ConcurrentDatabases, d2 \in OtherDatabases :
            database = [d \in DbIds |-> IF d = "db1" THEN d1 ELSE d2]
    /\ call = [c \in Calls |-> IdleCall]
    /\ locals = [c \in Calls |-> NoLocals]

\* How call c ends.
Finish(c, out) == [call[c] EXCEPT !.pc = "done", !.out = out]

\* A thread calls get_extra_params(database[db]).
Enter(c) ==
    /\ call[c].pc = "idle"
    /\ \E db \in DbIds :
            call' = [call EXCEPT ![c] = [@ EXCEPT !.pc = "load", !.db = db]]
    /\ UNCHANGED <<orm_col, orm_col0, altered, _time_grain_expressions,
                   files, last, database, locals>>

\* Lines 81-84.
LoadExtra(c) ==
    /\ call[c].pc = "load"
    /\ LET extra == load_extra(database[call[c].db]) IN
        IF extra.kind = "raise"
        THEN /\ call' = [call EXCEPT ![c] = Finish(c, extra)]
             /\ UNCHANGED locals
        ELSE /\ call' = [call EXCEPT ![c] = [@ EXCEPT !.pc = "test"]]
             /\ locals' = [locals EXCEPT ![FrameOf(c)] =
                                [@ EXCEPT !.extra = extra.val]]
    /\ UNCHANGED <<orm_col, orm_col0, altered, _time_grain_expressions,
                   files, last, database>>

\* Line 86, and line 94 when there is no certificate.
TestCert(c) ==
    /\ call[c].pc = "test"
    /\ IF has_server_cert(database[call[c].db])
       THEN call' = [call EXCEPT ![c] = [@ EXCEPT !.pc = "params"]]
       ELSE call' = [call EXCEPT ![c] =
                        Finish(c, Returned(locals[FrameOf(c)].extra))]
    /\ UNCHANGED <<orm_col, orm_col0, altered, _time_grain_expressions,
                   files, last, database, locals>>

\* Lines 87-89.
ConnectParams(c) ==
    /\ call[c].pc = "params"
    /\ LET params == connect_params(locals[FrameOf(c)].extra) IN
        IF params.kind = "raise"
        THEN /\ call' = [call EXCEPT ![c] = Finish(c, params)]
             /\ UNCHANGED locals
        ELSE /\ call' = [call EXCEPT ![c] = [@ EXCEPT !.pc = "create"]]
             /\ locals' = [locals EXCEPT ![FrameOf(c)] =
                                [@ EXCEPT !.params = params.val]]
    /\ UNCHANGED <<orm_col, orm_col0, altered, _time_grain_expressions,
                   files, last, database>>

\* Line 90.
CreateCertFile(c) ==
    /\ call[c].pc = "create"
    /\ LET made == create_ssl_cert_file(database[call[c].db].server_cert,
                                        files) IN
        /\ files' = made.files
        /\ IF made.out.kind = "raise"
           THEN /\ call' = [call EXCEPT ![c] =
                                [Finish(c, made.out) EXCEPT
                                    !.cert_calls = @ + 1]]
                /\ UNCHANGED locals
           ELSE /\ call' = [call EXCEPT ![c] =
                                [@ EXCEPT !.pc = "store",
                                          !.cert_calls = @ + 1]]
                /\ locals' = [locals EXCEPT ![FrameOf(c)] =
                                    [@ EXCEPT !.path = made.out.val]]
    /\ UNCHANGED <<orm_col, orm_col0, altered, _time_grain_expressions,
                   last, database>>

\* Lines 91-94.
StoreParams(c) ==
    /\ call[c].pc = "store"
    /\ LET f == locals[FrameOf(c)] IN
        call' = [call EXCEPT ![c] =
                    Finish(c, Returned(store_params(f.extra, f.params,
                                                    f.path)))]
    /\ UNCHANGED <<orm_col, orm_col0, altered, _time_grain_expressions,
                   files, last, database, locals>>

NextConc ==
    \E c \in Calls :
        \/ Enter(c)
        \/ LoadExtra(c)
        \/ TestCert(c)
        \/ ConnectParams(c)
        \/ CreateCertFile(c)
        \/ StoreParams(c)

SpecConc == InitConc /\ [][NextConc]_vars

(***************************************************************************)
(* Properties                                                              *)
(***************************************************************************)
\* The parsed extras of the record of the last get_extra_params call.
LastParsed ==
    json_loads(IF Truthy(last.arg.extra) THEN last.arg.extra
               ELSE PyStr(<<LB, RB>>))

\* The certificate of that record is one the utility accepts.
LastCertAccepted ==
    /\ Truthy(last.arg.server_cert)
    /\ create_ssl_cert_file(last.arg.server_cert, files).out.kind = "return"

\* new holds the keys of old and those of keys, and every key outside keys
\* has in new the value it has in old.
SameExcept(new, old, keys) ==
    /\ DOMAIN new.val = DOMAIN old.val \cup keys
    /\ \A k \in DOMAIN old.val \ keys : new.val[k] = old.val[k]

\* C1: for a record whose extras parse to a JSON object and whose
\* certificate the utility accepts, get_extra_params returns a mapping that
\* keeps every top-level key but engine_params, every key of engine_params
\* but connect_args and every key of connect_args but scheme and
\* ssl_verify_cert, with scheme "https" and ssl_verify_cert the path the
\* utility returned.
C1_CertKeepsOtherKeys ==
    (/\ last.op = "get_extra_params"
     /\ LastParsed.kind = "return"
     /\ LastParsed.val.kind = "dict"
     /\ LastCertAccepted)
    => /\ last.out.kind = "return"
       /\ last.out.val.kind = "dict"
       /\ SameExcept(last.out.val, LastParsed.val, {"engine_params"})
       /\ LET new_ep == last.out.val.val["engine_params"]
              old_ep == dict_get(LastParsed.val, "engine_params", EmptyDict)
          IN  /\ new_ep.kind = "dict"
              /\ SameExcept(new_ep, old_ep, {"connect_args"})
              /\ LET new_ca == new_ep.val["connect_args"]
                     old_ca == dict_get(old_ep, "connect_args", EmptyDict)
                 IN  /\ new_ca.kind = "dict"
                     /\ SameExcept(new_ca, old_ca,
                                   {"scheme", "ssl_verify_cert"})
                     /\ new_ca.val["scheme"] = PyStr("https")
                     /\ new_ca.val["ssl_verify_cert"]
                            = PyStr(CertPath(last.arg.server_cert.val))

\* C2: for a record whose extras text the JSON decoder rejects, with or
\* without a certificate, get_extra_params raises SupersetException from
\* the decoder's error: never the decoder's error itself, and no mapping.
C2_MalformedExtrasRaiseSupersetException ==
    (/\ last.op = "get_extra_params"
     /\ LastParsed.kind = "raise")
    => last.out = Raised("SupersetException", "JSONDecodeError")

C2_Witness ==
    /\ last.op = "get_extra_params"
    /\ last.arg.extra = PyStr(<<LB>>)
    /\ Truthy(last.arg.server_cert)
    /\ last.out.exc = "SupersetException"

\* C3: for every extras text that parses as JSON, an object or not, and
\* every certificate that is absent or accepted by the utility,
\* get_extra_params returns and raises nothing: its only errors are
\* SupersetException and the utility's CertificateException.
C3_OnlyTwoErrors ==
    (/\ last.op = "get_extra_params"
     /\ LastParsed.kind = "return"
     /\ (~Truthy(last.arg.server_cert) \/ LastCertAccepted))
    => last.out.kind = "return"

\* C7: for a record without a certificate whose extras text parses (an
\* empty or absent text being read as "{}"), get_extra_params returns
\* exactly the parsed extras; the text "{}" gives {}.
C7_NoCertReturnsParsedExtras ==
    (/\ last.op = "get_extra_params"
     /\ ~Truthy(last.arg.server_cert)
     /\ LastParsed.kind = "return")
    => /\ last.out = Returned(LastParsed.val)
       /\ last.arg.extra \in {PyNone, PyStr(<<>>), PyStr(<<LB, RB>>)}
            => last.out = Returned(EmptyDict)

C7_Witness ==
    /\ last.op = "get_extra_params"
    /\ last.arg = [extra |-> PyStr(FullExtras), server_cert |-> PyStr("")]
    /\ last.out.kind = "return"
    /\ "metadata_params" \in DOMAIN last.out.val.val
    /\ files # {}

\* C4: after alter_new_orm_column calls the flag of a column named "__time"
\* is true, the flag of any other column is the one it had before the
\* calls, and no other field of the column has changed.
C4_OnlyTimeColumnFlagged ==
    /\ (altered /\ orm_col.column_name = "__time") => orm_col.is_dttm
    /\ orm_col.column_name # "__time" => orm_col = orm_col0
    /\ orm_col = [orm_col0 EXCEPT !.is_dttm = orm_col.is_dttm]

C4_Witness ==
    /\ altered
    /\ orm_col0.column_name = "__time"
    /\ ~orm_col0.is_dttm
    /\ orm_col.is_dttm

\* The timestamp of the examples: 2024-01-05T12:30:45, naive.
IsExampleDate(d) == d.year = 2024 /\ d.month = 1 /\ d.day = 5
IsExampleTime(d) ==
    /\ IsExampleDate(d)
    /\ d.hour = 12 /\ d.minute = 30 /\ d.second = 45 /\ d.tz = <<>>

\* C5: a tag that is DATE whatever its letter case gives
\* CAST(TIME_PARSE('<YYYY-MM-DD>') AS DATE), the literal of the calendar
\* date alone; a tag that is DATETIME or TIMESTAMP whatever its letter case
\* gives TIME_PARSE('<ISO-8601 to the second>'), the literal of the
\* timestamp without its sub-second part.
C5_LiteralsDropTimeOrFraction ==
    last.op = "convert_dttm" =>
        LET tt == upper(last.arg.target_type)
            d == last.arg.dttm
            date_only == [d EXCEPT !.hour = 0, !.minute = 0, !.second = 0,
                                   !.microsecond = 0, !.tz = <<>>]
            to_second == [d EXCEPT !.microsecond = 0]
        IN  /\ tt = TemporalType_DATE =>
                /\ last.out.val.kind = "str"
                /\ last.out.val = convert_dttm(TemporalType_DATE, date_only)
                /\ IsExampleDate(d) =>
                    last.out.val
                        = PyStr("CAST(TIME_PARSE('2024-01-05') AS DATE)")
            /\ tt \in {TemporalType_DATETIME, TemporalType_TIMESTAMP} =>
                /\ last.out.val.kind = "str"
                /\ last.out.val
                        = convert_dttm(TemporalType_TIMESTAMP, to_second)
                /\ IsExampleTime(d) =>
                    last.out.val = PyStr("TIME_PARSE('2024-01-05T12:30:45')")

C5_Witness ==
    /\ last.op = "convert_dttm"
    /\ last.arg.target_type = <<"d", "a", "t", "e", "t", "i", "m", "e">>
    /\ last.arg.dttm.microsecond = 999999
    /\ last.out.val = PyStr("TIME_PARSE('2024-01-05T12:30:45')")

\* C6: a tag that is none of DATE, DATETIME and TIMESTAMP (compared as the
\* adapter compares tags, in upper case) gives None for every timestamp,
\* and no error.
C6_OtherTagsGiveNone ==
    (/\ last.op = "convert_dttm"
     /\ upper(last.arg.target_type) \notin
            {TemporalType_DATE, TemporalType_DATETIME, TemporalType_TIMESTAMP})
    => last.out = Returned(PyNone)

C6_Witness ==
    /\ last.op = "convert_dttm"
    /\ last.arg.target_type = <<"D", "A", "T", "E", "S">>
    /\ last.out = Returned(PyNone)

FloorTo(unit) == "FLOOR({col} TO " \o unit \o ")"
TimeFloor(period) == "TIME_FLOOR({col}, '" \o period \o "')"
WeekOffset(days) ==
    "TIMESTAMPADD(DAY, " \o days
        \o ", FLOOR(TIMESTAMPADD(DAY, 1, {col}) TO WEEK))"

\* The templates the time-grain table is to hold.
ListedTemplates ==
    [g \in {PyNone} |-> "{col}"]
    @@ [g \in {PyStr("PT1S")} |-> FloorTo("SECOND")]
    @@ [g \in {PyStr("PT1M")} |-> FloorTo("MINUTE")]
    @@ [g \in {PyStr("PT1H")} |-> FloorTo("HOUR")]
    @@ [g \in {PyStr("P1D")} |-> FloorTo("DAY")]
    @@ [g \in {PyStr("P1W")} |-> FloorTo("WEEK")]
    @@ [g \in {PyStr("P1M")} |-> FloorTo("MONTH")]
    @@ [g \in {PyStr("P0.25Y")} |-> FloorTo("QUARTER")]
    @@ [g \in {PyStr("P1Y")} |-> FloorTo("YEAR")]
    @@ [g \in {PyStr("PT5S"), PyStr("PT30S"), PyStr("PT5M"), PyStr("PT10M"),
               PyStr("PT15M"), PyStr("PT6H")} |-> TimeFloor(g.val)]
    @@ [g \in {PyStr("PT0.5H")} |-> TimeFloor("PT30M")]
    @@ [g \in {PyStr("P1W/1970-01-03T00:00:00Z")} |-> WeekOffset("5")]
    @@ [g \in {PyStr("1969-12-28T00:00:00Z/P1W")} |-> WeekOffset("-1")]

\* C8: the lookup of a grain of the table returns the template listed for
\* it, the None grain returns {col}, and the table is the same in every
\* state the adapter's operations reach.
C8_TimeGrainTableFixed ==
    /\ _time_grain_expressions = ListedTemplates
    /\ (last.op = "time_grain" /\ last.arg \in DOMAIN ListedTemplates)
        => last.out = Returned(PyStr(ListedTemplates[last.arg]))

C8_Witness ==
    /\ last.op = "time_grain"
    /\ last.arg = PyStr("PT0.5H")
    /\ last.out = Returned(PyStr("TIME_FLOOR({col}, 'PT30M')"))
    /\ altered
    /\ files # {}

\* Every finished concurrent call ended as a call running alone on its
\* record ends.
EndsAsAlone ==
    \A c \in Calls :
        call[c].pc = "done" =>
            call[c].out = get_extra_params(database[call[c].db], {}).out

\* C9: whatever the interleaving of get_extra_params calls on the same or
\* on different records, no record's extras text or certificate changes,
\* and every call returns what it returns when it runs alone on its record.
C9_CallsDoNotInterfere ==
    /\ []EndsAsAlone
    /\ [][database' = database]_vars

C9_Witness ==
    \E c1, c2 \in Calls :
        /\ call[c1].db # call[c2].db
        /\ call[c1].pc = "done"
        /\ call[c1].out.kind = "return"
        /\ Truthy(database[call[c1].db].server_cert)
        /\ call[c2].pc = "store"
        /\ locals[c1].extra # locals[c2].extra

\* C10: a call invokes the certificate-file utility at most once, after
\* the extras have parsed and only for a record with a certificate; a call
\* with malformed extras or without a certificate invokes it never, so the
\* only files are those of certificates the utility was invoked on; and
\* when the utility raises, the call ends in its error.
C10_CertFileAfterParseOnce ==
    /\ \A c \in Calls :
        LET db == database[call[c].db] IN
        /\ call[c].cert_calls <= 1
        /\ call[c].cert_calls = 1 =>
            /\ call[c].pc \in {"store", "done"}
            /\ load_extra(db).kind = "return"
            /\ Truthy(db.server_cert)
        /\ (load_extra(db).kind = "raise" \/ ~Truthy(db.server_cert)) =>
            call[c].cert_calls = 0
        /\ (/\ call[c].pc = "done"
            /\ call[c].cert_calls = 1
            /\ db.server_cert.val \notin ValidCerts) =>
            call[c].out = Raised("CertificateException", "")
    /\ files \subseteq
        { CertPath(database[call[c].db].server_cert.val) :
            c \in {k \in Calls : call[k].cert_calls = 1} }

C10_Witness ==
    \E c1, c2 \in Calls :
        /\ call[c1].pc = "done"
        /\ call[c1].cert_calls = 1
        /\ call[c1].out = Raised("CertificateException", "")
        /\ call[c2].pc = "done"
        /\ call[c2].cert_calls = 0
        /\ call[c2].out.exc = "SupersetException"
        /\ Truthy(database[call[c2].db].server_cert)

====
